---------------------------- MODULE Spec2Model ----------------------------
(***************************************************************************)
(* The fetch-normalize-inline pipeline of the scraper endpoints:           *)
(*   api     : the serverless handler with the 6s main timeout, the 3s     *)
(*             per-stylesheet timeout and the 3s global race               *)
(*   vercel  : the same handler without the race and the main timeout      *)
(*   netlify : exports.handler of netlify/functions/scrape.js              *)
(*   express : the local express server                                    *)
(* Strings are sequences of one-character strings.  A value that is used   *)
(* more than once is passed to a helper operator as an argument.           *)
(***************************************************************************)
EXTENDS Integers, Sequences, FiniteSets, TLC

(***************************************************************************)
(* Strings                                                                 *)
(***************************************************************************)
Upper == <<"A","B","C","D","E","F","G","H","I","J","K","L","M",
           "N","O","P","Q","R","S","T","U","V","W","X","Y","Z">>
Lower == <<"a","b","c","d","e","f","g","h","i","j","k","l","m",
           "n","o","p","q","r","s","t","u","v","w","x","y","z">>
Letters == {Upper[i] : i \in 1..26} \cup {Lower[i] : i \in 1..26}
Digits == {"0","1","2","3","4","5","6","7","8","9"}
Blanks == {" ", "\n", "\t"}

\* String.prototype.toLowerCase on one character
toLowerChar(c) ==
    IF \E i \in 1..26 : Upper[i] = c
    THEN Lower[CHOOSE i \in 1..26 : Upper[i] = c]
    ELSE c

toLowerCase(s) == [i \in 1..Len(s) |-> toLowerChar(s[i])]

\* String.prototype.startsWith
startsWith(s, p) ==
    /\ Len(s) >= Len(p)
    /\ \A i \in 1..Len(p) : s[i] = p[i]

\* the suffix that begins at the 1-based index i
From(s, i) == IF i > Len(s) THEN <<>> ELSE SubSeq(s, i, Len(s))

\* the prefix that ends right before the 1-based index i
Upto(s, i) == IF i <= 1 THEN <<>> ELSE SubSeq(s, 1, i - 1)

\* String.prototype.trim
RECURSIVE trimStart(_)
trimStart(s) ==
    IF s # <<>> /\ s[1] \in Blanks THEN trimStart(Tail(s)) ELSE s

RECURSIVE trimEnd(_)
trimEnd(s) ==
    IF s # <<>> /\ s[Len(s)] \in Blanks THEN trimEnd(Upto(s, Len(s))) ELSE s

trim(s) == trimEnd(trimStart(s))

\* index of the first element of s at or after i that is in the set cs,
\* Len(s) + 1 when there is none
RECURSIVE IndexOfAny(_, _, _)
IndexOfAny(s, cs, i) ==
    IF i > Len(s) THEN Len(s) + 1
    ELSE IF s[i] \in cs THEN i
    ELSE IndexOfAny(s, cs, i + 1)

\* String.prototype.split on one separator character
RECURSIVE split(_, _)
splitAt(s, c, k) ==
    IF k > Len(s) THEN <<s>>
    ELSE <<Upto(s, k)>> \o split(From(s, k + 1), c)

split(s, c) == splitAt(s, c, IndexOfAny(s, {c}, 1))

\* Array.prototype.join
RECURSIVE join(_, _)
join(parts, sep) ==
    IF parts = <<>> THEN <<>>
    ELSE IF Len(parts) = 1 THEN parts[1]
    ELSE parts[1] \o sep \o join(Tail(parts), sep)

(***************************************************************************)
(* new URL(reference, base).toString() for the references and bases the    *)
(* handlers build: http(s)-like bases with an authority, references with   *)
(* or without a scheme, path / query / fragment parts, dot segments,       *)
(* blanks.  Ports, credentials, backslashes, IDNA and percent-encoding     *)
(* other than of blanks and double quotes are outside the alphabet of the  *)
(* model.                                                                  *)
(***************************************************************************)
Throws == <<"THROWS">>
NoPart == <<"ABSENT">>
\* the failure of the URL parser
InvalidURL == [ok |-> FALSE, scheme |-> <<>>, host |-> <<>>, segs |-> <<>>,
               query |-> NoPart, fragment |-> NoPart]

S_http == <<"h","t","t","p">>
S_https == <<"h","t","t","p","s">>
S_ftp == <<"f","t","p">>
S_ws == <<"w","s">>
S_wss == <<"w","s","s">>
SpecialSchemes == {S_http, S_https, S_ftp, S_ws, S_wss}

\* the URL parser drops every tab and newline of its input
RECURSIVE removeTabNl(_)
removeTabNl(s) ==
    IF s = <<>> THEN <<>>
    ELSE IF s[1] \in {"\n", "\t"} THEN removeTabNl(Tail(s))
    ELSE <<s[1]>> \o removeTabNl(Tail(s))

\* a blank and a double quote are percent-encoded in path, query, fragment
percentEncodeChar(c) ==
    IF c = " " THEN <<"%","2","0">>
    ELSE IF c = "\"" THEN <<"%","2","2">>
    ELSE <<c>>

RECURSIVE percentEncode(_)
percentEncode(s) ==
    IF s = <<>> THEN <<>>
    ELSE percentEncodeChar(s[1]) \o percentEncode(Tail(s))

\* scheme state: k is the index of the first ':' of s; the index that ends
\* a scheme, 0 without one
schemeEndAt(s, k) ==
    IF /\ k <= Len(s)
       /\ k > 1
       /\ s[1] \in Letters
       /\ \A i \in 2..(k - 1) : s[i] \in Letters \cup Digits \cup {"+", "-", "."}
    THEN k
    ELSE 0

schemeEnd(s) == schemeEndAt(s, IndexOfAny(s, {":"}, 1))

\* shorten a path: drop its last segment
shorten(segs) == IF segs = <<>> THEN <<>> ELSE SubSeq(segs, 1, Len(segs) - 1)

\* path state: one segment of the input, last tells whether it ends the path
pathStep(acc, seg, last) ==
    IF seg = <<".", ".">>
    THEN IF last THEN Append(shorten(acc), <<>>) ELSE shorten(acc)
    ELSE IF seg = <<".">>
    THEN IF last THEN Append(acc, <<>>) ELSE acc
    ELSE Append(acc, percentEncode(seg))

\* path state: fold the segments of the input into the path
RECURSIVE pathState(_, _)
pathState(segs, acc) ==
    IF segs = <<>> THEN acc
    ELSE pathState(Tail(segs), pathStep(acc, segs[1], Len(segs) = 1))

\* query and fragment state: after begins at '?' or '#' or is empty, qEnd is
\* the index of its first '#'
queryAndFragment(segs, after, qEnd) ==
    [segs |-> segs,
     query |-> IF after # <<>> /\ after[1] = "?"
               THEN percentEncode(SubSeq(after, 2, qEnd - 1))
               ELSE NoPart,
     fragment |-> IF qEnd <= Len(after)
                  THEN percentEncode(From(after, qEnd + 1))
                  ELSE NoPart]

afterPath(segs, after) ==
    queryAndFragment(segs, after, IndexOfAny(after, {"#"}, 1))

parseTailAt(rest, startSegs, pEnd) ==
    afterPath(pathState(split(Upto(rest, pEnd), "/"), startSegs),
              From(rest, pEnd))

\* the path, query and fragment of the input that begins at a path
parseTail(rest, startSegs) ==
    parseTailAt(rest, startSegs, IndexOfAny(rest, {"?", "#"}, 1))

\* host state: an empty host is a failure
hostParsed(scheme, host, t) ==
    IF host = <<>> THEN InvalidURL
    ELSE [ok |-> TRUE, scheme |-> scheme, host |-> host, segs |-> t.segs,
          query |-> t.query, fragment |-> t.fragment]

\* path start state: the '/' that begins the path
dropSlash(s) == IF s # <<>> /\ s[1] = "/" THEN Tail(s) ELSE s

parseAuthorityAt(scheme, rest, hEnd) ==
    hostParsed(scheme, toLowerCase(Upto(rest, hEnd)),
               parseTail(dropSlash(From(rest, hEnd)), <<>>))

\* the authority, path, query and fragment that follow "scheme://"
parseAuthority(scheme, rest) ==
    parseAuthorityAt(scheme, rest, IndexOfAny(rest, {"/", "?", "#"}, 1))

RECURSIVE skipSlashes(_)
skipSlashes(s) ==
    IF s # <<>> /\ s[1] = "/" THEN skipSlashes(Tail(s)) ELSE s

parseBaseAt(s, k) ==
    IF k = 0 \/ toLowerCase(Upto(s, k)) \notin SpecialSchemes THEN InvalidURL
    ELSE parseAuthority(toLowerCase(Upto(s, k)), skipSlashes(From(s, k + 1)))

parseBaseInput(s) == parseBaseAt(s, schemeEnd(s))

\* basic URL parser without a base, for a special scheme with an authority;
\* a failure for everything that cannot serve as a base
parseBase(b) == parseBaseInput(removeTabNl(trim(b)))

\* URL serializer
serialize(u) ==
    u.scheme \o <<":", "/", "/">> \o u.host \o <<"/">>
        \o join(u.segs, <<"/">>)
        \o (IF u.query = NoPart THEN <<>> ELSE <<"?">> \o u.query)
        \o (IF u.fragment = NoPart THEN <<>> ELSE <<"#">> \o u.fragment)

serializeOrThrow(u) == IF u.ok THEN serialize(u) ELSE Throws

\* the base with the path, query and fragment of the reference
withTail(base, t) ==
    [base EXCEPT !.segs = t.segs, !.query = t.query, !.fragment = t.fragment]

\* the base with the query and fragment of the reference
withQuery(base, t) ==
    [base EXCEPT !.query = t.query, !.fragment = t.fragment]

\* relative state: a reference without a scheme against a parsed base
resolveRelative(r, base) ==
    IF r = <<>>
    THEN [base EXCEPT !.fragment = NoPart]
    ELSE IF startsWith(r, <<"/", "/">>)
    THEN parseAuthority(base.scheme, skipSlashes(r))
    ELSE IF r[1] = "?"
    THEN withQuery(base, afterPath(<<>>, r))
    ELSE IF r[1] = "#"
    THEN [base EXCEPT !.fragment = percentEncode(Tail(r))]
    ELSE withTail(base, parseTail(dropSlash(r),
                                  IF r[1] = "/" THEN <<>>
                                  ELSE shorten(base.segs)))

\* a reference with a scheme: no special scheme, the scheme of the base
\* without "//" (relative to the base), or a URL of its own
resolveScheme(scheme, rest, base) ==
    IF scheme \notin SpecialSchemes
    THEN scheme \o <<":">> \o rest
    ELSE serializeOrThrow(
             IF scheme = base.scheme /\ ~startsWith(rest, <<"/", "/">>)
             THEN resolveRelative(rest, base)
             ELSE parseAuthority(scheme, skipSlashes(rest)))

resolveAt(r, base, k) ==
    IF k = 0 THEN serializeOrThrow(resolveRelative(r, base))
    ELSE resolveScheme(toLowerCase(Upto(r, k)), From(r, k + 1), base)

resolve(r, base) ==
    IF base.ok THEN resolveAt(r, base, schemeEnd(r)) ELSE Throws

\* new URL(reference, base).toString(); Throws when the constructor throws
URLtoString(reference, baseUrl) ==
    resolve(removeTabNl(trim(reference)), parseBase(baseUrl))

(***************************************************************************)
(* makeAbsolute and rewriteCssUrls                                         *)
(***************************************************************************)
S_data == <<"d","a","t","a",":">>
S_slashes == <<"/","/">>
S_hash == <<"#">>
S_mailto == <<"m","a","i","l","t","o",":">>
S_tel == <<"t","e","l",":">>
S_javascript == <<"j","a","v","a","s","c","r","i","p","t",":">>
PassThroughPrefixes ==
    {S_data, S_http, S_slashes, S_hash, S_mailto, S_tel, S_javascript}

\* try { ... } catch (e) { return relativeUrl; }
orElse(result, fallback) == IF result = Throws THEN fallback ELSE result

\* makeAbsolute that returns the trimmed reference
makeAbsoluteTrimmed(relativeUrl, baseUrl) ==
    IF relativeUrl = <<>> THEN relativeUrl
    ELSE IF \E p \in PassThroughPrefixes : startsWith(trim(relativeUrl), p)
    THEN trim(relativeUrl)
    ELSE orElse(URLtoString(relativeUrl, baseUrl), relativeUrl)

\* makeAbsolute without the test for 'http'
makeAbsoluteNoHttp(relativeUrl, baseUrl) ==
    IF relativeUrl = <<>> THEN relativeUrl
    ELSE IF \E p \in PassThroughPrefixes \ {S_http} :
                startsWith(trim(relativeUrl), p)
    THEN relativeUrl
    ELSE orElse(URLtoString(relativeUrl, baseUrl), relativeUrl)

\* makeAbsolute without its catch block
makeAbsoluteNoCatch(relativeUrl, baseUrl) ==
    IF relativeUrl = <<>> THEN relativeUrl
    ELSE IF \E p \in PassThroughPrefixes : startsWith(trim(relativeUrl), p)
    THEN relativeUrl
    ELSE URLtoString(relativeUrl, baseUrl)

makeAbsolute(relativeUrl, baseUrl) ==
    IF relativeUrl = <<>> THEN relativeUrl
    ELSE IF \E p \in PassThroughPrefixes : startsWith(trim(relativeUrl), p)
    THEN relativeUrl
    ELSE orElse(URLtoString(relativeUrl, baseUrl), relativeUrl)

\* resp.data that axios parsed into something that is not a string
NonString == <<"NONSTRING">>

\* the values undefined and null
undefined == <<"UNDEFINED">>
null == <<"NULL">>

S_url == <<"u","r","l","(">>

\* the regular expression finds "url(" at index i, in any letter case
urlOpensAt(s, i) ==
    /\ i + 3 <= Len(s)
    /\ toLowerCase(SubSeq(s, i, i + 3)) = S_url

\* (.*?)\1\) : the first index at or after i where the quote (or, without a
\* quote, nothing) and ")" follow, with no line break before it; 0 if none
RECURSIVE closeAt(_, _, _)
closeAt(s, quote, i) ==
    IF i + Len(quote) > Len(s) THEN 0
    ELSE IF startsWith(From(s, i), quote \o <<")">>) THEN i
    ELSE IF s[i] = "\n" THEN 0
    ELSE closeAt(s, quote, i + 1)

NoMatch == [found |-> FALSE, quote |-> <<>>, url |-> <<>>, next |-> 0]

\* (['"]?) : the quote at index p, or nothing
quoteAt(s, p) ==
    IF p <= Len(s) /\ s[p] \in {"'", "\""} THEN <<s[p]>> ELSE <<>>

\* the match with the quote if it closes at jq, else without a quote if a
\* ")" follows at jn
matchClosed(s, p, q, jq, jn) ==
    IF jq # 0
    THEN [found |-> TRUE, quote |-> q, url |-> SubSeq(s, p + 1, jq - 1),
          next |-> jq + 2]
    ELSE IF jn # 0
    THEN [found |-> TRUE, quote |-> <<>>, url |-> SubSeq(s, p, jn - 1),
          next |-> jn + 1]
    ELSE NoMatch

matchQuoted(s, p, q) ==
    matchClosed(s, p, q, IF q = <<>> THEN 0 ELSE closeAt(s, q, p + 1),
                closeAt(s, <<>>, p))

\* one match of /url\((['"]?)(.*?)\1\)/gi that starts at index i:
\* the quote, the captured url and the index after the match
matchUrlAt(s, i) ==
    IF urlOpensAt(s, i) THEN matchQuoted(s, i + 4, quoteAt(s, i + 4))
    ELSE NoMatch

\* String.prototype.replace with the global flag and the callback
RECURSIVE replaceUrls(_, _, _)
replaceMatch(s, baseUrl, i, m) ==
    IF m.found
    THEN S_url \o m.quote \o makeAbsolute(m.url, baseUrl) \o m.quote
             \o <<")">> \o replaceUrls(s, baseUrl, m.next)
    ELSE <<s[i]>> \o replaceUrls(s, baseUrl, i + 1)

replaceUrls(s, baseUrl, i) ==
    IF i > Len(s) THEN <<>>
    ELSE replaceMatch(s, baseUrl, i, matchUrlAt(s, i))

\* rewriteCssUrls without the test of its first line
rewriteCssUrlsNoGuard(cssContent, baseUrl) ==
    IF cssContent \in {undefined, null, NonString} THEN Throws
    ELSE replaceUrls(cssContent, baseUrl, 1)

\* Throws when cssContent.replace is not a function
rewriteCssUrls(cssContent, baseUrl) ==
    IF cssContent \in {<<>>, undefined, null} THEN <<>>
    ELSE IF cssContent = NonString THEN Throws
    ELSE replaceUrls(cssContent, baseUrl, 1)

(***************************************************************************)
(* The parsed document: a sequence of elements in document order, the      *)
(* children of head before the children of body.  An attribute that the    *)
(* element does not carry is undefined.                                    *)
(***************************************************************************)
Node == [id |-> 0, parent |-> "body", tag |-> "div", rel |-> "",
         href |-> undefined, src |-> undefined, poster |-> undefined,
         srcset |-> undefined, style |-> undefined,
         integrity |-> undefined, crossorigin |-> undefined,
         text |-> <<>>]

\* a truthy attribute value: present and not the empty string
truthy(v) == v # undefined /\ v # <<>>

\* the request url of the model
PageUrl == <<"h","t","t","p","s",":","/","/","e","x",".","c","o","m","/","d","/","p">>

H_rel == <<"a",".","c","s","s">>
H_path == <<"/","b",".","c","s","s">>
H_proto == <<"/","/","c",".","i","o","/","c",".","c","s","s">>
H_full == <<"h","t","t","p","s",":","/","/","c",".","i","o","/","d",".","c","s","s">>
V_sha == <<"s","h","a">>
V_anon == <<"a","n","o","n","y","m","o","u","s">>
V_icon == <<"/","i",".","p","n","g">>
V_img == <<"a",".","p","n","g">>
V_srcset == <<"a",".","j","p","g"," ","1","x",","," ","b",".","j","p","g"," ","2","x">>
V_style == <<"b","a","c","k","g","r","o","u","n","d",":","u","r","l","(","'","b","g",".","p","n","g","'",")">>
V_upper == <<"b","a","c","k","g","r","o","u","n","d",":","U","R","L","(","p",".","p","n","g",")">>
V_poster == <<"p",".","p","n","g">>

Link(parent, href) ==
    [Node EXCEPT !.tag = "link", !.rel = "stylesheet", !.parent = parent,
                 !.href = href]

L_rel == [Link("head", H_rel) EXCEPT !.integrity = V_sha,
                                     !.crossorigin = V_anon]
L_path == Link("head", H_path)
L_proto == Link("head", H_proto)
L_full == Link("head", H_full)
L_empty == Link("head", <<>>)
L_none == Link("head", undefined)
E_icon == [Node EXCEPT !.tag = "link", !.rel = "icon", !.parent = "head",
                       !.href = V_icon]
E_img == [Node EXCEPT !.tag = "img", !.src = V_img, !.srcset = V_srcset,
                      !.style = V_style, !.crossorigin = V_anon]
E_video == [Node EXCEPT !.tag = "video", !.poster = V_poster,
                        !.style = V_upper]

\* the pages the origin may answer with
Pages ==
    { [head |-> TRUE, elems |-> <<L_rel, L_proto, L_full, E_img>>],
      [head |-> TRUE, elems |-> <<L_rel, L_rel, L_path, E_icon>>],
      [head |-> FALSE, elems |-> <<L_empty, L_none, Link("body", H_path), E_video>>],
      [head |-> TRUE, elems |-> <<E_video, L_path, E_img, E_icon>>] }

\* the number of elements of a page that the model keeps
MaxElems == 3

\* the stylesheet bodies an origin may answer with
C_css == <<"a","{","b",":","u","r","l","(","'","b","g",".","p","n","g","'",")","}">>
CssBodies == {C_css, <<>>, NonString}

(***************************************************************************)
(* The document transformer                                                *)
(***************************************************************************)
\* cheerio.load: the first n elements of the page, each with its identity
cheerioLoad(page, n) ==
    [i \in 1..n |-> [page.elems[i] EXCEPT !.id = i]]

\* $el.is('link[rel="stylesheet"]')
isStylesheetLink(e) == e.tag = "link" /\ e.rel = "stylesheet"

\* the position of the element with identity id in the tree, 0 if detached
positionOf(t, id) ==
    IF \E i \in DOMAIN t : t[i].id = id
    THEN CHOOSE i \in DOMAIN t : t[i].id = id
    ELSE 0

\* const promise = axios.get(fullUrl, ...).then(...).catch(...)
Task(e, baseUrl) ==
    [el |-> e.id, fullUrl |-> makeAbsolute(e.href, baseUrl),
     outcome |-> "pending", promise |-> "pending", css |-> <<>>]

\* one task per stylesheet link, whatever its href
RECURSIVE stylePromisesAll(_, _)
stylePromisesAll(t, baseUrl) ==
    IF t = <<>> THEN <<>>
    ELSE (IF isStylesheetLink(t[1])
          THEN <<Task(t[1], baseUrl)>>
          ELSE <<>>) \o stylePromisesAll(Tail(t), baseUrl)

\* one task per stylesheet link with a truthy href, in document order
RECURSIVE stylePromises(_, _)
stylePromises(t, baseUrl) ==
    IF t = <<>> THEN <<>>
    ELSE (IF isStylesheetLink(t[1]) /\ truthy(t[1].href)
          THEN <<Task(t[1], baseUrl)>>
          ELSE <<>>) \o stylePromises(Tail(t), baseUrl)

\* 3. Broad Resource Rewriting
rewriteAttr(v, baseUrl) == IF truthy(v) THEN makeAbsolute(v, baseUrl) ELSE v

\* step 3 without the test that skips the stylesheet links
rewriteResourcesAll(t, baseUrl) ==
    [i \in DOMAIN t |->
        [t[i] EXCEPT !.src = rewriteAttr(@, baseUrl),
                     !.href = rewriteAttr(@, baseUrl),
                     !.poster = rewriteAttr(@, baseUrl)]]

rewriteResources(t, baseUrl) ==
    [i \in DOMAIN t |->
        IF isStylesheetLink(t[i]) THEN t[i]
        ELSE [t[i] EXCEPT !.src = rewriteAttr(@, baseUrl),
                          !.href = rewriteAttr(@, baseUrl),
                          !.poster = rewriteAttr(@, baseUrl)]]

\* trimmed.split(/\s+/) of a trimmed string
RECURSIVE splitBlanks(_)
splitBlanksAt(s, k) ==
    IF k > Len(s) THEN <<s>>
    ELSE <<Upto(s, k)>> \o splitBlanks(trimStart(From(s, k)))

splitBlanks(s) == splitBlanksAt(s, IndexOfAny(s, Blanks, 1))

\* every token of the candidate made absolute
rewriteBitsAll(bits, baseUrl) ==
    join([i \in DOMAIN bits |-> makeAbsolute(bits[i], baseUrl)], <<" ">>)

\* bits[0] = makeAbsolute(bits[0], baseUrl); return bits.join(' ')
rewriteBits(bits, baseUrl) ==
    join([bits EXCEPT ![1] = makeAbsolute(@, baseUrl)], <<" ">>)

\* 4. Process srcset: one candidate
rewriteCandidate(part, baseUrl) ==
    rewriteBits(splitBlanks(trim(part)), baseUrl)

rewriteParts(parts, baseUrl) ==
    join([i \in DOMAIN parts |-> rewriteCandidate(parts[i], baseUrl)],
         <<",", " ">>)

rewriteSrcset(srcset, baseUrl) == rewriteParts(split(srcset, ","), baseUrl)

processSrcset(t, baseUrl) ==
    [i \in DOMAIN t |->
        IF truthy(t[i].srcset)
        THEN [t[i] EXCEPT !.srcset = rewriteSrcset(@, baseUrl)]
        ELSE t[i]]

\* String.prototype.includes
includes(s, sub) ==
    \E i \in 1..(Len(s) - Len(sub) + 1) : SubSeq(s, i, i + Len(sub) - 1) = sub

\* a pass that rewrites every style attribute that has a value
processInlineStylesAll(t, baseUrl) ==
    [i \in DOMAIN t |->
        IF truthy(t[i].style)
        THEN [t[i] EXCEPT !.style = rewriteCssUrls(@, baseUrl)]
        ELSE t[i]]

\* 5. Process Inline Styles
processInlineStyles(t, baseUrl) ==
    [i \in DOMAIN t |->
        IF truthy(t[i].style) /\ includes(t[i].style, S_url)
        THEN [t[i] EXCEPT !.style = rewriteCssUrls(@, baseUrl)]
        ELSE t[i]]

\* a cleanup of the link elements only
cleanupLinks(t) ==
    [i \in DOMAIN t |->
        IF t[i].tag = "link"
        THEN [t[i] EXCEPT !.integrity = undefined, !.crossorigin = undefined]
        ELSE t[i]]

\* 6. Cleanup
cleanup(t) ==
    [i \in DOMAIN t |->
        [t[i] EXCEPT !.integrity = undefined, !.crossorigin = undefined]]

\* the number of head elements that the source itself has
headCountOfSource(page) == IF page.head THEN 1 ELSE 0

\* $('head').length: the document parser builds html, head and body even
\* for a source without them
headCount(page) == 1

BaseTag(url) ==
    [Node EXCEPT !.tag = "base", !.parent = "head", !.href = url]

\* $('head').prepend(`<base href="${url}">`)
prependBase(t, page, url) ==
    IF headCount(page) > 0 THEN <<BaseTag(url)>> \o t ELSE t

\* steps 3 to 6 and the base tag, in the order of the handler
transform(t, page, url) ==
    prependBase(
        cleanup(
            processInlineStyles(
                processSrcset(rewriteResources(t, url), url), url)),
        page, url)

(***************************************************************************)
(* A stylesheet task: axios.get(fullUrl).then(...).catch(...)              *)
(***************************************************************************)
S_open == <<"/", "*", " ">>
S_close == <<" ", "*", "/", "\n">>

\* `<style>/* ${fullUrl} */\n${rewritedCss}</style>`
styleTag(el, fullUrl, rewritedCss) ==
    [Node EXCEPT !.tag = "style", !.id = el.id, !.parent = el.parent,
                 !.text = S_open \o fullUrl \o S_close \o rewritedCss]

\* $(el).replaceWith(styleTag)
replaceWith(t, id, new) ==
    [i \in DOMAIN t |-> IF t[i].id = id THEN new ELSE t[i]]

\* $(el).attr('href', fullUrl)
attrHref(t, id, value) ==
    [i \in DOMAIN t |->
        IF t[i].id = id THEN [t[i] EXCEPT !.href = value] ELSE t[i]]

\* the then callback once the css is rewritten: threw tells whether
\* rewriteCssUrls raised
inlineStyle(t, task, rewritedCss) ==
    IF rewritedCss = Throws THEN [threw |-> TRUE, tree |-> t]
    ELSE [threw |-> FALSE,
          tree |-> replaceWith(t, task.el,
                       styleTag(t[positionOf(t, task.el)], task.fullUrl,
                                rewritedCss))]

\* the then callback with the css rewritten against the url of the page
thenCallbackPageBase(t, task, data) ==
    inlineStyle(t, task, rewriteCssUrls(data, PageUrl))

\* the then callback
thenCallback(t, task, data) ==
    inlineStyle(t, task, rewriteCssUrls(data, task.fullUrl))

\* a catch callback that writes the href of every stylesheet link of the tree
catchCallbackAll(t, task) ==
    [i \in DOMAIN t |->
        IF isStylesheetLink(t[i]) THEN [t[i] EXCEPT !.href = task.fullUrl]
        ELSE t[i]]

\* the catch callback
catchCallback(t, task) == attrHref(t, task.el, task.fullUrl)

\* the outcome of axios.get(...).then(...): a tree and whether the promise
\* is rejected
getThen(t, task, result, data) ==
    IF result = "ok" THEN thenCallback(t, task, data)
    ELSE [threw |-> TRUE, tree |-> t]

\* the chain whose catch callback also runs after the then callback
chainBoth(task, result, data, th) ==
    [tree |-> catchCallback(th.tree, task), gets |-> <<>>,
     ops |-> IF th.threw THEN <<"attr">> ELSE <<"replaceWith", "attr">>,
     task |-> [task EXCEPT !.outcome = IF ~th.threw THEN "inlined"
                                       ELSE IF result = "ok" THEN "exception"
                                       ELSE result,
                           !.promise = "fulfilled", !.css = data]]

\* the chain without its catch callback
chainNoCatch(task, result, data, th) ==
    IF ~th.threw
    THEN [tree |-> th.tree, gets |-> <<>>, ops |-> <<"replaceWith">>,
          task |-> [task EXCEPT !.outcome = "inlined",
                                !.promise = "fulfilled", !.css = data]]
    ELSE [tree |-> th.tree, gets |-> <<>>, ops |-> <<>>,
          task |-> [task EXCEPT !.outcome = IF result = "ok" THEN "exception"
                                            ELSE result,
                                !.promise = "rejected"]]

\* the chain with a catch callback that asks for the stylesheet once more
chainRetry(task, result, data, th) ==
    IF ~th.threw
    THEN [tree |-> th.tree, gets |-> <<>>, ops |-> <<"replaceWith">>,
          task |-> [task EXCEPT !.outcome = "inlined",
                                !.promise = "fulfilled", !.css = data]]
    ELSE [tree |-> catchCallback(th.tree, task),
          gets |-> <<[url |-> task.fullUrl, el |-> task.el]>>,
          ops |-> <<"attr">>,
          task |-> [task EXCEPT !.outcome = IF result = "ok" THEN "exception"
                                            ELSE result,
                                !.promise = "fulfilled"]]

\* .catch(...): a rejection of the GET and a throw of the then callback both
\* end in the catch callback, which returns; neither callback issues a GET
chain(task, result, data, th) ==
    IF ~th.threw
    THEN [tree |-> th.tree, gets |-> <<>>, ops |-> <<"replaceWith">>,
          task |-> [task EXCEPT !.outcome = "inlined",
                                !.promise = "fulfilled", !.css = data]]
    ELSE [tree |-> catchCallback(th.tree, task), gets |-> <<>>,
          ops |-> <<"attr">>,
          task |-> [task EXCEPT !.outcome = IF result = "ok" THEN "exception"
                                            ELSE result,
                                !.promise = "fulfilled"]]

\* the promise chain of one task once its GET has an answer: result is "ok"
\* with the body data, or the reason of the failure
settle(t, task, result, data) ==
    chain(task, result, data, getThen(t, task, result, data))


(***************************************************************************)
(* The helpers of the in-browser adapter                                   *)
(***************************************************************************)
\* the callback of resolveCssUrls once the URL is resolved: the catch block
\* returns the match
resolvedOr(match, quote, absoluteAssetUrl) ==
    IF absoluteAssetUrl = Throws THEN match
    ELSE S_url \o quote \o absoluteAssetUrl \o quote \o <<")">>

\* the callback of resolveCssUrls
resolveToken(match, quote, path, baseUrl) ==
    IF \/ path = <<>>
       \/ \E p \in {S_data, S_http, S_slashes} : startsWith(path, p)
    THEN match
    ELSE resolvedOr(match, quote, URLtoString(path, baseUrl))

\* cssText.replace(/url\((['"]?)(.*?)\1\)/g, ...): the expression has no
\* i flag
RECURSIVE resolveUrls(_, _, _)
resolveMatch(s, baseUrl, i, m) ==
    IF m.found
    THEN resolveToken(SubSeq(s, i, m.next - 1), m.quote, m.url, baseUrl)
             \o resolveUrls(s, baseUrl, m.next)
    ELSE <<s[i]>> \o resolveUrls(s, baseUrl, i + 1)

resolveUrls(s, baseUrl, i) ==
    IF i > Len(s) THEN <<>>
    ELSE resolveMatch(s, baseUrl, i,
                      IF i + 3 <= Len(s) /\ SubSeq(s, i, i + 3) = S_url
                      THEN matchQuoted(s, i + 4, quoteAt(s, i + 4))
                      ELSE NoMatch)

\* Throws when cssText.replace cannot be called
resolveCssUrls(cssText, baseUrl) ==
    IF cssText \in {undefined, null, NonString} THEN Throws
    ELSE resolveUrls(cssText, baseUrl, 1)

\* Asset Normalization: the value written back to the attribute
normalizeValue(attrValue, baseUrl) ==
    IF \/ ~truthy(attrValue)
       \/ \E p \in {S_data, S_http, S_slashes, S_hash} :
              startsWith(attrValue, p)
    THEN attrValue
    ELSE orElse(URLtoString(attrValue, baseUrl), attrValue)

\* Asset Normalization of one element: attrName is 'src' when the element
\* has a src attribute and 'href' otherwise
assetNormalization(el, baseUrl) ==
    IF el.src # undefined
    THEN [el EXCEPT !.src = normalizeValue(@, baseUrl)]
    ELSE [el EXCEPT !.href = normalizeValue(@, baseUrl)]
(***************************************************************************)
(* The request handlers                                                    *)
(***************************************************************************)
VARIABLES
    adapter,     \* the deployment that serves the request
    method,      \* req.method / event.httpMethod
    body,        \* what the request carries as its body
    phase,       \* the state of the orchestrator
    main,        \* the promise of the main GET
    source,      \* the parsed page as it was fetched
    tree,        \* $ : the document tree the handler and the tasks mutate
    tasks,       \* stylePromises, with the state of each task
    timer,       \* stylesTimeout: "unset", "armed" or "fired"
    gets,        \* the GET requests issued so far
    responses,   \* the responses sent so far
    unhandled,   \* an exception left the handler
    abandoned,   \* the tasks that were pending when the tree was serialized
    fetched,     \* response.data of the main GET
    call,        \* a helper called on its own: its arguments and its result
    events,      \* the operations on the tree and the GETs of the stylesheets,
                 \* in the order the code performs them, and who performs them
    bundle       \* one call of bundleFramerSite in the browser

vars == <<adapter, method, body, phase, main, source, tree, tasks, timer, gets,
          responses, unhandled, abandoned, fetched, call, events, bundle>>

Adapters == {"api", "vercel", "netlify", "express"}
Methods == {"POST", "OPTIONS", "GET", "PUT"}
Bodies == {"none", "null", "nokey", "emptyurl", "url"}

\* axios.get(url, { timeout: 6000, ... }) of the main page
HasMainTimeout(a) == a = "api"

\* a stylesheet GET that carries no timeout
NoFetchTimeout(a) == FALSE

\* axios.get(fullUrl, { timeout: ... }): 3000 in api, 8000 in the others
HasFetchTimeout(a) == a \in Adapters

\* Promise.race([Promise.all(stylePromises), stylesTimeout])
HasGlobalTimer(a) == a = "api"

\* const { url } = req.body
urlOf(b) ==
    IF b = "url" THEN PageUrl
    ELSE IF b = "emptyurl" THEN <<>>
    ELSE undefined

\* what the handler finds as the request body: express.json() leaves {} for
\* a request without a body and rejects a JSON body that is no object
requestBody(a, b) ==
    IF b \in {"none", "null"}
    THEN IF a = "express"
         THEN IF b = "none" THEN "object" ELSE "rejected"
         ELSE "nullish"
    ELSE "object"

Response(status, keys, error, html) ==
    [status |-> status, keys |-> keys, error |-> error, html |-> html]

MethodNotAllowed(a) ==
    Response(405, {"error"},
             IF a = "api" THEN "Method Not Allowed" ELSE "Method not allowed",
             <<>>)

UrlRequired == Response(400, {"error"}, "URL is required", <<>>)

\* a catch block that answers with what it has of the document
ScrapingErrorPartial(message) == Response(200, {"html"}, message, <<>>)

\* the catch block of the handler
ScrapingError(message) == Response(500, {"error"}, message, <<>>)

\* res.status(200).json({ html: finalHtml })
Success(finalHtml) == Response(200, {"html"}, "", finalHtml)

\* the answer to a preflight request
Preflight(a) == Response(IF a = "express" THEN 204 ELSE 200, {}, "", <<>>)

\* what the express app answers without calling the route: it has the cors
\* and json middleware and a single POST route
beforeHandler(a, m, b) ==
    IF a # "express" THEN <<>>
    ELSE IF m = "OPTIONS" THEN <<Preflight(a)>>
    ELSE IF m # "POST" THEN <<Response(404, {}, "Cannot " \o m, <<>>)>>
    ELSE IF requestBody(a, b) = "rejected"
    THEN <<Response(400, {}, "SyntaxError", <<>>)>>
    ELSE <<>>

\* the handler up to its first await: the responses it sends, whether an
\* exception leaves it, and the GET it issues
entry(a, m, b) ==
    IF m = "OPTIONS"
    THEN [responses |-> <<Preflight(a)>>, unhandled |-> FALSE, gets |-> <<>>]
    ELSE IF m # "POST"
    THEN [responses |-> <<MethodNotAllowed(a)>>, unhandled |-> FALSE,
          gets |-> <<>>]
    ELSE IF requestBody(a, b) = "nullish"
    THEN IF a = "api"
         THEN [responses |-> <<>>, unhandled |-> TRUE, gets |-> <<>>]
         ELSE [responses |-> <<ScrapingError("TypeError")>>,
               unhandled |-> FALSE, gets |-> <<>>]
    ELSE IF ~truthy(urlOf(b))
    THEN [responses |-> <<UrlRequired>>, unhandled |-> FALSE, gets |-> <<>>]
    ELSE [responses |-> <<>>, unhandled |-> FALSE,
          gets |-> <<[url |-> urlOf(b), el |-> 0]>>]

\* the request from the server to the first await of the handler
received(a, m, b) ==
    IF beforeHandler(a, m, b) # <<>>
    THEN [responses |-> beforeHandler(a, m, b), unhandled |-> FALSE,
          gets |-> <<>>]
    ELSE entry(a, m, b)

\* no page fetched yet
NoHtml == [head |-> FALSE, elems |-> <<>>]

\* no helper called
NoCall == [fn |-> "none", arg |-> <<>>, baseUrl |-> <<>>, quote |-> <<>>,
           path |-> <<>>, n |-> 0, cands |-> <<>>, el |-> Node, out |-> <<>>,
           outEl |-> Node]

\* bundleFramerSite not called
NoBundle == [pc |-> "idle", targetUrl |-> <<>>, doc |-> <<>>, links |-> <<>>,
             i |-> 0, absoluteUrl |-> <<>>, stylesInlined |-> 0,
             reports |-> <<>>]

\* one operation of the handler on the tree, or one GET it issues
Step(by, op, el) == [by |-> by, op |-> op, el |-> el]

\* the steps of the handler from the parsed page to the await of the race, in
\* the order of the source: the GETs of the tasks are issued while
\* stylePromises is built, before the three passes over the attributes
handlerSteps(ts) ==
    [i \in DOMAIN ts |-> Step("handler", "get", ts[i].el)]
    \o <<Step("handler", "rewriteResources", 0),
         Step("handler", "processSrcset", 0),
         Step("handler", "processInlineStyles", 0),
         Step("handler", "cleanup", 0),
         Step("handler", "prependBase", 0)>>

\* the operations of the then or catch callback of the task of element el
callbackSteps(el, ops) == [k \in DOMAIN ops |-> Step("task", ops[k], el)]

Init ==
    /\ adapter \in Adapters
    /\ method \in Methods
    /\ body \in Bodies
    /\ phase = "Idle"
    /\ main = "unsent"
    /\ source = <<>>
    /\ tree = <<>>
    /\ tasks = <<>>
    /\ timer = "unset"
    /\ gets = <<>>
    /\ responses = <<>>
    /\ unhandled = FALSE
    /\ abandoned = {}
    /\ fetched = NoHtml
    /\ call = NoCall
    /\ events = <<>>
    /\ bundle = NoBundle

Received(r) ==
    /\ responses' = r.responses
    /\ unhandled' = r.unhandled
    /\ gets' = r.gets
    /\ phase' = IF r.gets # <<>> THEN "FetchingMain"
                ELSE IF r.unhandled THEN "Crashed"
                ELSE "Rejected"
    /\ main' = IF r.gets # <<>> THEN "pending" ELSE "unsent"

HandleRequest ==
    /\ phase = "Idle"
    /\ Received(received(adapter, method, body))
    /\ UNCHANGED <<adapter, method, body, source, tree, tasks, timer,
                   abandoned, fetched, call, events, bundle>>

\* Promise.all(stylePromises)
allState(ts) ==
    IF \E i \in DOMAIN ts : ts[i].promise = "rejected" THEN "rejected"
    ELSE IF \A i \in DOMAIN ts : ts[i].promise = "fulfilled" THEN "fulfilled"
    ELSE "pending"

\* the await of Promise.all(stylePromises) alone
raceNoTimer(all, a, tm) == all

\* the race of the promise of all tasks with the timer
race(all, a, tm) ==
    IF all # "pending" THEN all
    ELSE IF HasGlobalTimer(a) /\ tm = "fired" THEN "fulfilled"
    ELSE "pending"

\* what the handler awaits after the transformation
awaited(a, ts, tm) == race(allState(ts), a, tm)

Pending(ts) == {i \in DOMAIN ts : ts[i].outcome = "pending"}

\* the rest of the handler once the awaited promise has settled: serialize
\* and answer, or answer from the catch block
Resume(state, ts, t) ==
    IF phase # "FetchingStylesheets" \/ state = "pending"
    THEN UNCHANGED <<phase, responses, abandoned>>
    ELSE IF state = "fulfilled"
    THEN /\ phase' = "Done"
         /\ responses' = Append(responses, Success(t))
         /\ abandoned' = Pending(ts)
    ELSE /\ phase' = "MainFailed"
         /\ responses' = Append(responses, ScrapingError("stylesheet"))
         /\ UNCHANGED abandoned

Continue(ts, tm, t) == Resume(awaited(adapter, ts, tm), ts, t)

\* the handler from the answer of the main GET to the await of the race
Started(parsed, ts, t) ==
    /\ source' = parsed
    /\ tasks' = ts
    /\ gets' = gets \o [i \in DOMAIN ts |->
                           [url |-> ts[i].fullUrl, el |-> ts[i].el]]
    /\ tree' = t
    /\ events' = events \o handlerSteps(ts)
    /\ timer' = IF HasGlobalTimer(adapter) THEN "armed" ELSE "unset"
    /\ IF ts = <<>>
       THEN /\ phase' = "Done"
            /\ responses' = Append(responses, Success(t))
       ELSE /\ phase' = "FetchingStylesheets"
            /\ UNCHANGED responses

Parsed(page, parsed, url) ==
    Started(parsed, stylePromises(parsed, url), transform(parsed, page, url))

\* the main GET is answered with a page: steps 2 to 6 of the handler
MainFetchSucceeds(page, n) ==
    /\ phase = "FetchingMain"
    /\ main' = "fulfilled"
    /\ fetched' = [head |-> page.head, elems |-> SubSeq(page.elems, 1, n)]
    /\ Parsed(page, cheerioLoad(page, n), urlOf(body))
    /\ UNCHANGED <<adapter, method, body, unhandled, abandoned, call, bundle>>

\* the main GET fails: network error or non-2xx status
MainFetchFails(reason) ==
    /\ phase = "FetchingMain"
    /\ phase' = "MainFailed"
    /\ main' = "rejected"
    /\ responses' = Append(responses, ScrapingError(reason))
    /\ UNCHANGED <<adapter, method, body, source, tree, tasks, timer, gets,
                   unhandled, abandoned, fetched, call, events, bundle>>

\* the 6s timeout of the main GET
MainFetchTimeout ==
    /\ HasMainTimeout(adapter)
    /\ MainFetchFails("timeout")

Settled(ts, t) ==
    /\ tree' = t
    /\ tasks' = ts
    /\ Continue(ts, timer, t)

TaskSettled(i, r) ==
    /\ gets' = gets \o r.gets
    /\ events' = events \o callbackSteps(r.task.el, r.ops)
    /\ Settled([tasks EXCEPT ![i] = r.task], r.tree)

\* the GET of task i has an answer
Settle(i, result, data) ==
    /\ phase \in {"FetchingStylesheets", "Done"}
    /\ i \in DOMAIN tasks
    /\ tasks[i].outcome = "pending"
    /\ TaskSettled(i, settle(tree, tasks[i], result, data))
    /\ UNCHANGED <<adapter, method, body, main, source, timer, unhandled,
                   fetched, call, bundle>>

\* the GET of task i is answered 2xx with the body data
StylesheetFetched(i, data) ==
    /\ main = "fulfilled"
    /\ Settle(i, "ok", data)

\* the GET of task i fails: network error or non-2xx status
StylesheetFetchFails(i, reason) ==
    /\ main = "fulfilled"
    /\ Settle(i, reason, <<>>)

\* the per-fetch timeout of axios
StylesheetTimeout(i) ==
    /\ main = "fulfilled"
    /\ HasFetchTimeout(adapter)
    /\ Settle(i, "timeout", <<>>)

\* stylesTimeout resolves
GlobalTimerFires ==
    /\ timer = "armed"
    /\ timer' = "fired"
    /\ Continue(tasks, "fired", tree)
    /\ UNCHANGED <<adapter, method, body, main, source, tree, tasks, gets,
                   unhandled, fetched, call, events, bundle>>

Next ==
    \/ HandleRequest
    \/ \E page \in Pages, n \in 0..MaxElems : MainFetchSucceeds(page, n)
    \/ \E reason \in {"network", "status"} : MainFetchFails(reason)
    \/ MainFetchTimeout
    \/ \E i \in 1..MaxElems, data \in CssBodies : StylesheetFetched(i, data)
    \/ \E i \in 1..MaxElems, reason \in {"network", "status"} :
          StylesheetFetchFails(i, reason)
    \/ \E i \in 1..MaxElems : StylesheetTimeout(i)
    \/ GlobalTimerFires

Spec == Init /\ [][Next]_vars

\* the timers of node and the timeouts of axios fire; nothing obliges an
\* origin to answer
FairSpec ==
    /\ Spec
    /\ WF_vars(HandleRequest)
    /\ WF_vars(MainFetchTimeout)
    /\ \A i \in 1..MaxElems : WF_vars(StylesheetTimeout(i))
    /\ WF_vars(GlobalTimerFires)


(***************************************************************************)
(* The CORS headers of a response                                          *)
(***************************************************************************)
AllowCredentials == "Access-Control-Allow-Credentials"
AllowOrigin == "Access-Control-Allow-Origin"
AllowMethods == "Access-Control-Allow-Methods"
AllowHeaders == "Access-Control-Allow-Headers"

\* the headers every answer of the handler carries: res.setHeader at the top
\* of the handler, the headers object of the netlify function; the cors
\* middleware answers a preflight with the origin and the methods
corsHeaders(a) ==
    IF a = "netlify" THEN {AllowOrigin, AllowHeaders, AllowMethods}
    ELSE IF a = "express" THEN {AllowOrigin, AllowMethods}
    ELSE {AllowCredentials, AllowOrigin, AllowMethods, AllowHeaders}

(***************************************************************************)
(* The helpers called on their own, with arguments drawn from bounded sets *)
(***************************************************************************)
\* the length of the generated references
MaxRefLen == 3

\* the characters of the generated references
RefChars == {"a", "/", ".", "#", "?", " "}

R_malformed == <<":",":",":","n","o","t"," ","a"," ","u","r","l">>
R_ftpHost == <<"f","t","p",":","/","/","H","o","s","t">>

\* references with a scheme, with blanks around them, with dot segments
NamedRefs ==
    { R_malformed, R_ftpHost,
      <<>>,
      <<"#","f","r","a","g">>,
      <<"d","a","t","a",":","x">>,
      <<"m","a","i","l","t","o",":","x","@","y",".","c","o","m">>,
      <<"t","e","l",":","1","2","3">>,
      <<"j","a","v","a","s","c","r","i","p","t",":","v","o","i","d","(","0",")">>,
      <<"/","/","h","o","s","t","/","p","a","t","h">>,
      <<" ","#","a"," ">>,
      <<" "," ","/","/","h","/","p">>,
      <<" ","d","a","t","a",":","x">>,
      <<"\t","m","a","i","l","t","o",":","x">>,
      <<"f","t","p",":","/","/","H","o","s","t">>,
      <<"f","t","p",":","/","/","h","/","a">>,
      <<"f","t","p",":">>,
      <<"h","t","t","p","s",":","/","/","e","x",".","c","o","m">>,
      <<"h","t","t","p",":","/","/","h","/","a"," ","b">>,
      <<"H","T","T","P",":","/","/","E","X",".","c","o","m","/","A">>,
      <<"h","t","t","p","f","o","o",".","c","s","s">>,
      <<"a","/",".",".","/","b",".","p","n","g">>,
      <<".","/","a">>,
      <<"?","q">>,
      <<"x",":","y">>,
      <<"s","t","y","l","e",".","c","s","s">> }

Refs == NamedRefs \cup UNION {[1..k -> RefChars] : k \in 0..MaxRefLen}

B_root == <<"h","t","t","p","s",":","/","/","e","x",".","c","o","m","/">>
B_invalid == <<"n","o","b","a","s","e">>
Bases == {B_root, PageUrl, B_invalid}

S_background == <<"b","a","c","k","g","r","o","u","n","d",":">>

\* the paths of the url() tokens
CssPaths ==
    {
      <<"b","g",".","p","n","g">>,
      <<".",".","/","f",".","w","o","f","f">>,
      <<"/","i",".","p","n","g">>,
      <<"#","c">>,
      <<"d","a","t","a",":","x">>,
      <<"h","t","t","p","s",":","/","/","c",".","i","o","/","x",".","p","n","g">>,
      <<" ","b",".","p","n","g">> }

Quotes == {<<>>, <<"'">>, <<"\"">>}

\* a declaration with one url() token
declaration(quote, path) ==
    S_background \o S_url \o quote \o path \o quote \o <<")">>

\* a style sheet with n declarations of the same token
cssOf(quote, path, n) ==
    IF n = 1 THEN declaration(quote, path)
    ELSE declaration(quote, path) \o <<";">> \o declaration(quote, path)

C_plain == <<"a","{","c","o","l","o","r",":","r","e","d","}">>
C_open == <<"a","{","b",":","u","r","l","(","x">>

\* what a caller may pass as the style sheet
CssArgs ==
    {[arg |-> cssOf(q, p, n), quote |-> q, path |-> p, n |-> n] :
        q \in Quotes, p \in CssPaths, n \in 1..2}
    \cup {[arg |-> c, quote |-> <<>>, path |-> <<>>, n |-> 0] :
             c \in {<<>>, undefined, null, NonString, C_plain, C_open}}

\* the number of candidates of a srcset
MaxCands == 2

D_1x == <<"1","x">>
U_a == <<"a",".","j","p","g">>
U_b == <<"b",".","j","p","g">>
Candidates ==
    [url : {U_a, U_b, V_icon, H_full},
     descriptor : {<<>>, D_1x, <<"2","x">>, <<"4","8","0","w">>}]

\* the text of one candidate
candidateText(c, blank) ==
    IF c.descriptor = <<>> THEN c.url ELSE c.url \o blank \o c.descriptor

\* the srcset attribute with the candidates cs
srcsetOf(cs, sep, blank) ==
    join([i \in DOMAIN cs |-> candidateText(cs[i], blank)], sep)

SrcsetArgs ==
    {[cands |-> cs, arg |-> srcsetOf(cs, sep, blank)] :
        cs \in UNION {[1..k -> Candidates] : k \in 1..MaxCands},
        sep \in {<<",">>, <<",", " ">>},
        blank \in {<<" ">>, <<" ", " ">>}}

\* elements with every combination of src, href and poster
Elements ==
    {[Node EXCEPT !.id = 1, !.tag = k[1], !.rel = k[2], !.src = s,
                  !.href = h, !.poster = p] :
        k \in {<<"video", "">>, <<"link", "icon">>, <<"link", "stylesheet">>},
        s \in {undefined, <<>>, V_img},
        h \in {undefined, <<>>, H_path},
        p \in {undefined, <<>>, V_poster}}

handlerVars == <<adapter, method, body, phase, main, source, tree, tasks,
                 timer, gets, responses, unhandled, abandoned, fetched,
                 events>>

CallMakeAbsolute ==
    /\ call.fn = "none"
    /\ \E r \in Refs, b \in Bases :
          call' = [NoCall EXCEPT !.fn = "makeAbsolute", !.arg = r,
                                 !.baseUrl = b, !.out = makeAbsolute(r, b)]
    /\ UNCHANGED <<handlerVars, bundle>>

\* the record of a call of one of the two CSS rewriters
cssCall(fn, a, b, out) ==
    [NoCall EXCEPT !.fn = fn, !.arg = a.arg, !.quote = a.quote,
                   !.path = a.path, !.n = a.n, !.baseUrl = b, !.out = out]

CallRewriteCssUrls ==
    /\ call.fn = "none"
    /\ \E a \in CssArgs, b \in Bases :
          call' = cssCall("rewriteCssUrls", a, b, rewriteCssUrls(a.arg, b))
    /\ UNCHANGED <<handlerVars, bundle>>

CallResolveCssUrls ==
    /\ call.fn = "none"
    /\ \E a \in CssArgs, b \in Bases :
          call' = cssCall("resolveCssUrls", a, b, resolveCssUrls(a.arg, b))
    /\ UNCHANGED <<handlerVars, bundle>>

CallRewriteSrcset ==
    /\ call.fn = "none"
    /\ \E a \in SrcsetArgs, b \in Bases :
          call' = [NoCall EXCEPT !.fn = "rewriteSrcset", !.arg = a.arg,
                                 !.cands = a.cands, !.baseUrl = b,
                                 !.out = rewriteSrcset(a.arg, b)]
    /\ UNCHANGED <<handlerVars, bundle>>

CallRewriteResources ==
    /\ call.fn = "none"
    /\ \E e \in Elements, b \in Bases :
          call' = [NoCall EXCEPT !.fn = "rewriteResources", !.el = e,
                                 !.baseUrl = b,
                                 !.outEl = rewriteResources(<<e>>, b)[1]]
    /\ UNCHANGED <<handlerVars, bundle>>

CallAssetNormalization ==
    /\ call.fn = "none"
    /\ \E e \in Elements, b \in Bases :
          call' = [NoCall EXCEPT !.fn = "assetNormalization", !.el = e,
                                 !.baseUrl = b,
                                 !.outEl = assetNormalization(e, b)]
    /\ UNCHANGED <<handlerVars, bundle>>

HelperInit ==
    /\ adapter = "api"
    /\ method = "POST"
    /\ body = "url"
    /\ phase = "Idle"
    /\ main = "unsent"
    /\ source = <<>>
    /\ tree = <<>>
    /\ tasks = <<>>
    /\ timer = "unset"
    /\ gets = <<>>
    /\ responses = <<>>
    /\ unhandled = FALSE
    /\ abandoned = {}
    /\ fetched = NoHtml
    /\ call = NoCall
    /\ events = <<>>
    /\ bundle = NoBundle

HelperNext ==
    \/ CallMakeAbsolute
    \/ CallRewriteCssUrls
    \/ CallResolveCssUrls
    \/ CallRewriteSrcset
    \/ CallRewriteResources
    \/ CallAssetNormalization

HelperSpec == HelperInit /\ [][HelperNext]_vars

(***************************************************************************)
(* bundleFramerSite, the in-browser adapter                                *)
(***************************************************************************)
\* what the caller may pass as targetUrl
Targets == {PageUrl, B_invalid}

\* onProgress(status, { message, type, timestamp })
onProgress(b, status, type) ==
    [b EXCEPT !.reports = Append(@, [status |-> status, type |-> type])]

\* the addLog closure: it reports every message with ScrapeStatus.FETCHING
addLog(b, type) == onProgress(b, "FETCHING", type)

\* the catch block of bundleFramerSite
bundleFailed(b) == [onProgress(b, "ERROR", "error") EXCEPT !.pc = "rejected"]

\* Array.from(doc.querySelectorAll('link[rel="stylesheet"]'))
RECURSIVE querySelectorAll(_)
querySelectorAll(doc) ==
    IF doc = <<>> THEN <<>>
    ELSE (IF isStylesheetLink(doc[1])
          THEN <<[id |-> doc[1].id, href |-> doc[1].href]>>
          ELSE <<>>) \o querySelectorAll(Tail(doc))

\* Asset Normalization and the return of the result
bundleFinished(b) ==
    [onProgress(onProgress(b, "INLINING_ASSETS", "info"), "SUCCESS", "success")
        EXCEPT !.pc = "resolved",
               !.doc = [k \in DOMAIN b.doc |->
                           assetNormalization(b.doc[k], b.targetUrl)]]

\* the for loop over the links from the k-th link to its next await, or to
\* the end of the function
RECURSIVE forLinks(_, _)
fetchCss(b, k, absoluteUrl) ==
    IF absoluteUrl = Throws THEN forLinks(addLog(b, "warning"), k + 1)
    ELSE [b EXCEPT !.pc = "fetchingCss", !.i = k,
                   !.absoluteUrl = absoluteUrl]

forLinks(b, k) ==
    IF k > Len(b.links) THEN bundleFinished(b)
    ELSE IF ~truthy(b.links[k].href) THEN forLinks(b, k + 1)
    ELSE fetchCss(b, k, URLtoString(b.links[k].href, b.targetUrl))

\* the body of the loop once the style sheet is read
styleInlined(b, cssText) ==
    IF cssText = Throws THEN addLog(b, "warning")
    ELSE [b EXCEPT !.stylesInlined = @ + 1,
                   !.doc = replaceWith(@, b.links[b.i].id,
                               [Node EXCEPT !.tag = "style",
                                            !.id = b.links[b.i].id,
                                            !.parent = "head",
                                            !.text = cssText])]

\* the function from the parsed document to the first await of the loop
bundleParsed(b, doc) ==
    IF ~parseBase(b.targetUrl).ok THEN bundleFailed(b)
    ELSE forLinks([onProgress(b, "INLINING_ASSETS", "info")
                      EXCEPT !.doc = doc, !.links = querySelectorAll(doc)], 1)

browserDone(b) ==
    /\ bundle' = b
    /\ UNCHANGED <<handlerVars, call>>

\* the call of bundleFramerSite up to the fetch of the page
BundleStart ==
    /\ bundle.pc = "idle"
    /\ browserDone([onProgress(bundle, "FETCHING", "info")
                       EXCEPT !.pc = "fetchingPage"])

\* the proxy does not deliver the page: the fetch rejects, the status is not
\* ok, or the body is no JSON
PageFetchFails(reason) ==
    /\ bundle.pc = "fetchingPage"
    /\ reason \in {"network", "status", "json"}
    /\ browserDone(bundleFailed(bundle))

\* the proxy delivers the page
PageFetched(page, n) ==
    /\ bundle.pc = "fetchingPage"
    /\ browserDone(bundleParsed(onProgress(bundle, "PARSING", "info"),
                                cheerioLoad(page, n)))

\* the proxy delivers the style sheet of the current link
CssFetched(data) ==
    /\ bundle.pc = "fetchingCss"
    /\ browserDone(forLinks(styleInlined(bundle,
                                resolveCssUrls(data, bundle.absoluteUrl)),
                            bundle.i + 1))

\* the proxy answers with a status that is not ok: the link is left alone
\* and nothing is reported
CssNotOk ==
    /\ bundle.pc = "fetchingCss"
    /\ browserDone(forLinks(bundle, bundle.i + 1))

\* the fetch of the style sheet rejects or its body is no JSON
CssFetchFails(reason) ==
    /\ bundle.pc = "fetchingCss"
    /\ reason \in {"network", "json"}
    /\ browserDone(forLinks(addLog(bundle, "warning"), bundle.i + 1))

BrowserInit ==
    /\ adapter = "api"
    /\ method = "POST"
    /\ body = "url"
    /\ phase = "Idle"
    /\ main = "unsent"
    /\ source = <<>>
    /\ tree = <<>>
    /\ tasks = <<>>
    /\ timer = "unset"
    /\ gets = <<>>
    /\ responses = <<>>
    /\ unhandled = FALSE
    /\ abandoned = {}
    /\ fetched = NoHtml
    /\ call = NoCall
    /\ events = <<>>
    /\ \E t \in Targets : bundle = [NoBundle EXCEPT !.targetUrl = t]

BrowserNext ==
    \/ BundleStart
    \/ \E reason \in {"network", "status", "json"} : PageFetchFails(reason)
    \/ \E page \in Pages, n \in 0..MaxElems : PageFetched(page, n)
    \/ \E data \in CssBodies : CssFetched(data)
    \/ CssNotOk
    \/ \E reason \in {"network", "json"} : CssFetchFails(reason)

BrowserSpec == BrowserInit /\ [][BrowserNext]_vars
(***************************************************************************)
(* Properties                                                              *)
(***************************************************************************)
Failures == {"network", "status", "timeout", "exception"}

\* the request is answered once, with 200 and an html body
Answered200 ==
    /\ Len(responses) = 1
    /\ responses[1].status = 200
    /\ responses[1].keys = {"html"}
    /\ responses[1].error = ""

\* the tasks whose outcome the serialized document has seen
Seen == (DOMAIN tasks) \ (Pending(tasks) \cup abandoned)

\* the element of the returned document that has the identity of task i
Returned(i) ==
    responses[1].html[positionOf(responses[1].html, tasks[i].el)]

\* C1: once the main fetch has succeeded the only answer is a 200 with an
\* html body, whatever the outcomes of the stylesheet tasks: no outcome makes
\* the handler fail, and when every task has settled the answer is sent
C1_StylesheetFailuresNeverAbort ==
    main = "fulfilled" =>
        /\ ~unhandled
        /\ responses # <<>> => Answered200
        /\ Pending(tasks) = {} => Answered200

\* every task has failed, one of them in the rewriting of its body and one
\* by its timeout, and the request is answered
C1_Witness ==
    /\ main = "fulfilled"
    /\ Len(tasks) >= 2
    /\ \A i \in DOMAIN tasks : tasks[i].outcome \in Failures
    /\ \E i \in DOMAIN tasks : tasks[i].outcome = "exception"
    /\ \E i \in DOMAIN tasks : tasks[i].outcome = "timeout"
    /\ responses # <<>>

\* C2: when the main fetch fails the request is answered exactly once, with
\* 500 and a body that has an error string and no html key
C2_MainFailureIsOneError ==
    main = "rejected" =>
        /\ Len(responses) = 1
        /\ responses[1].status = 500
        /\ responses[1].keys = {"error"}
        /\ responses[1].error # ""
        /\ responses[1].html = <<>>
        /\ tree = <<>>

\* the main fetch has timed out
C2_Witness ==
    /\ main = "rejected"
    /\ phase = "MainFailed"
    /\ responses # <<>>
    /\ responses[1].error = "timeout"

\* C3: the handler waits for the stylesheets exactly as long as a task is
\* pending and the global timer has not fired, and it has serialized the
\* document only with every task settled or with the timer fired
C3_LeavesAtFirstEvent ==
    /\ phase = "FetchingStylesheets" =>
          /\ Pending(tasks) # {}
          /\ timer # "fired"
          /\ responses = <<>>
    /\ (main = "fulfilled" /\ phase # "FetchingStylesheets") =>
          /\ phase = "Done"
          /\ abandoned = {} \/ timer = "fired"

\* the timer has fired before a task settled and the document is returned
C3_Witness ==
    /\ phase = "Done"
    /\ timer = "fired"
    /\ abandoned # {}
    /\ Answered200

\* C4: a link whose task was pending when the global timer fired is returned
\* as the link of the source with the href of the source, also after the task
\* has succeeded or failed
C4_AbandonedLinkKeepsSourceState ==
    \A i \in abandoned :
        /\ Answered200
        /\ timer = "fired"
        /\ Returned(i).tag = "link"
        /\ Returned(i).rel = "stylesheet"
        /\ Returned(i).href = source[tasks[i].el].href

\* two abandoned tasks have answered after the deadline, one with a
\* stylesheet and one with a failure
C4_Witness ==
    /\ \E i \in abandoned : tasks[i].outcome = "inlined"
    /\ \E i \in abandoned : tasks[i].outcome \in Failures
    /\ \E i \in abandoned : source[tasks[i].el].href = H_rel

\* an absolute URL: a scheme and an authority
isAbsolute(u) == parseBase(u).ok /\ startsWith(From(u, schemeEnd(u) + 1), S_slashes)

\* C5: a stylesheet link whose fetch failed or timed out is returned as a
\* link with an absolute href
C5_FailedLinkHasAbsoluteHref ==
    Answered200 =>
        \A i \in Seen :
            tasks[i].outcome \in Failures =>
                /\ Returned(i).tag = "link"
                /\ Returned(i).rel = "stylesheet"
                /\ isAbsolute(Returned(i).href)

T_inlined == <<"/","*"," ","h","t","t","p","s",":","/","/","c",".","i","o","/","d",".","c","s","s"," ","*","/","\n","a","{","b",":","u","r","l","(","'","h","t","t","p","s",":","/","/","c",".","i","o","/","b","g",".","p","n","g","'",")","}">>

\* C6: a link whose task succeeded before the document was serialized is
\* returned, at the position of the link, as one style element with the
\* comment of the source URL and the rewritten CSS
C6_SucceededLinkIsInlined ==
    Answered200 =>
        /\ Len(responses[1].html) = Len(source) + 1
        /\ \A i \in Seen :
              tasks[i].outcome = "inlined" =>
                  /\ positionOf(responses[1].html, tasks[i].el)
                         = tasks[i].el + 1
                  /\ Returned(i).tag = "style"
                  /\ Returned(i).href = undefined
                  /\ Returned(i).text =
                         S_open \o tasks[i].fullUrl \o S_close
                             \o rewriteCssUrls(tasks[i].css, tasks[i].fullUrl)
                  /\ (tasks[i].fullUrl = H_full /\ tasks[i].css = C_css) =>
                         Returned(i).text = T_inlined

\* the stylesheet of another origin is inlined in the returned document
C6_Witness ==
    /\ Answered200
    /\ \E i \in Seen :
          /\ tasks[i].outcome = "inlined"
          /\ tasks[i].fullUrl = H_full
          /\ tasks[i].css = C_css

\* C7: a POST with a url ends in MainFailed or Done with its response sent
C7_PostTerminates ==
    (method = "POST" /\ truthy(urlOf(body)) /\ phase = "FetchingMain")
        ~> (phase \in {"MainFailed", "Done"} /\ responses # <<>>)

C9_MissingUrlIs400 ==
    (phase # "Idle" /\ method = "POST" /\ ~truthy(urlOf(body))) =>
        /\ responses = <<UrlRequired>>
        /\ gets = <<>>

\* C10: a request that is neither POST nor OPTIONS is answered 405 and
\* issues no fetch
C10_OtherMethodIs405 ==
    (phase # "Idle" /\ method \notin {"POST", "OPTIONS"}) =>
        /\ Len(responses) = 1
        /\ responses[1].status = 405
        /\ gets = <<>>


(***************************************************************************)
(* Properties of the entry points and of the helpers                       *)
(***************************************************************************)
\* C11: an OPTIONS request is answered 200 with an empty body and the
\* Access-Control-Allow-* headers, whatever its body, and issues no fetch
C11_OptionsIs200 ==
    (phase # "Idle" /\ method = "OPTIONS") =>
        /\ Len(responses) = 1
        /\ responses[1].status = 200
        /\ responses[1].keys = {}
        /\ {AllowOrigin, AllowMethods} \subseteq corsHeaders(adapter)
        /\ gets = <<>>
        /\ ~unhandled

\* the references that the claim lists as returned unchanged
passThrough(r) ==
    \/ r = <<>>
    \/ \E p \in {S_hash, S_data, S_mailto, S_tel, S_javascript, S_slashes} :
          startsWith(trim(r), p)

\* C12: makeAbsolute returns the empty reference and every reference that,
\* trimmed, starts with '#', 'data:', 'mailto:', 'tel:', 'javascript:' or
\* '//' character for character, for every base
C12_PassThrough ==
    (call.fn = "makeAbsolute" /\ passThrough(call.arg)) =>
        call.out = call.arg

\* a fragment with blanks around it has come back with its blanks
C12_Witness ==
    /\ call.fn = "makeAbsolute"
    /\ call.arg = <<" ", "#", "a", " ">>
    /\ call.baseUrl = PageUrl
    /\ call.out = call.arg

\* C13: makeAbsolute returns every already-absolute URL unchanged, and
\* applying it twice gives what applying it once gives
C13_AbsoluteUnchanged ==
    call.fn = "makeAbsolute" =>
        /\ isAbsolute(call.arg) => call.out = call.arg
        /\ makeAbsolute(call.out, call.baseUrl) = call.out

\* C13 as amended: a reference that starts with 'http' is returned
\* unchanged, and applying makeAbsolute twice gives what applying it once
\* gives; another absolute URL comes back as the URL parser serializes it
C13_Idempotent ==
    call.fn = "makeAbsolute" =>
        /\ startsWith(trim(call.arg), S_http) => call.out = call.arg
        /\ makeAbsolute(call.out, call.baseUrl) = call.out
        /\ (isAbsolute(call.arg) /\ parseBase(call.baseUrl).ok) =>
               call.out = URLtoString(call.arg, call.baseUrl)
                   \/ call.out = call.arg

\* an absolute ftp URL has come back with its host in lower case and a path
C13_Witness ==
    /\ call.fn = "makeAbsolute"
    /\ call.arg = R_ftpHost
    /\ call.baseUrl = PageUrl
    /\ call.out # call.arg
    /\ isAbsolute(call.out)

\* C14: makeAbsolute never throws, returns the reference when the URL
\* resolution fails, and returns ":::not a url" unchanged
C14_FailClosed ==
    call.fn = "makeAbsolute" =>
        /\ call.out # Throws
        /\ URLtoString(call.arg, call.baseUrl) = Throws =>
               call.out = call.arg
        /\ call.arg = R_malformed => call.out = call.arg

\* C14 as amended: makeAbsolute never throws and returns the reference when
\* the URL resolution fails; ":::not a url" is a relative reference that
\* resolves against a valid base
C14_NeverThrows ==
    call.fn = "makeAbsolute" =>
        /\ call.out # Throws
        /\ URLtoString(call.arg, call.baseUrl) = Throws =>
               call.out = call.arg
        /\ (call.arg = R_malformed /\ call.baseUrl = B_root) =>
               call.out = <<"h","t","t","p","s",":","/","/","e","x",".","c","o","m","/",":",":",":","n","o","t","%","2","0","a","%","2","0","u","r","l">>

\* the resolution of a reference has failed against a valid base
C14_Witness ==
    /\ call.fn = "makeAbsolute"
    /\ ~passThrough(call.arg)
    /\ call.baseUrl = PageUrl
    /\ URLtoString(call.arg, call.baseUrl) = Throws
    /\ call.out = call.arg

\* C15: each url() token of the style sheet comes back with its path made
\* absolute by makeAbsolute and with the quotes it had, in both rewriters
C15_TokenRewritten ==
    (call.fn \in {"rewriteCssUrls", "resolveCssUrls"} /\ call.n > 0) =>
        call.out = cssOf(call.quote, makeAbsolute(call.path, call.baseUrl),
                         call.n)

\* C16: rewriteCssUrls never throws, returns the empty string for an empty,
\* null or undefined argument and returns a text without url( unchanged
C16_Total ==
    call.fn = "rewriteCssUrls" =>
        /\ call.out # Throws
        /\ call.arg \in {<<>>, null, undefined} => call.out = <<>>
        /\ (call.arg \notin {null, undefined, NonString} /\ call.n = 0) =>
               call.out = call.arg

\* C16 as amended: for a string, null or undefined rewriteCssUrls returns a
\* string, the empty one for an empty, null or undefined argument and the
\* argument for a text without a closed url( token; any other truthy value
\* makes it throw
C16_TotalOnStrings ==
    call.fn = "rewriteCssUrls" =>
        /\ call.out = Throws <=> call.arg = NonString
        /\ call.arg \in {<<>>, null, undefined} => call.out = <<>>
        /\ (call.arg \notin {null, undefined, NonString} /\ call.n = 0) =>
               call.out = call.arg

\* null has come back as the empty string
C16_Witness ==
    /\ call.fn = "rewriteCssUrls"
    /\ call.arg = null
    /\ call.out = <<>>

\* the candidate with its URL made absolute
rewritten(c, baseUrl) ==
    [url |-> makeAbsolute(c.url, baseUrl), descriptor |-> c.descriptor]

T_srcset == <<"h","t","t","p","s",":","/","/","e","x",".","c","o","m","/","a",".","j","p","g"," ","1","x",","," ","h","t","t","p","s",":","/","/","e","x",".","c","o","m","/","b",".","j","p","g"," ","2","x">>

\* C17: the srcset comes back with as many candidates, in their order,
\* joined with ", ", each with its URL made absolute and its descriptor
\* unchanged
C17_SrcsetRewritten ==
    call.fn = "rewriteSrcset" =>
        /\ call.out =
               srcsetOf([i \in DOMAIN call.cands |->
                            rewritten(call.cands[i], call.baseUrl)],
                        <<",", " ">>, <<" ">>)
        /\ (call.arg = V_srcset /\ call.baseUrl = B_root) =>
               call.out = T_srcset

\* "a.jpg 1x, b.jpg 2x" has been rewritten against https://ex.com/
C17_Witness ==
    /\ call.fn = "rewriteSrcset"
    /\ call.arg = V_srcset
    /\ call.baseUrl = B_root
    /\ Len(call.cands) = 2
    /\ call.out = T_srcset

\* C18: no element of a returned document has an integrity or a crossorigin
\* attribute, whatever the outcomes of the stylesheet tasks
C18_NoIntegrity ==
    Answered200 =>
        \A i \in DOMAIN responses[1].html :
            /\ responses[1].html[i].integrity = undefined
            /\ responses[1].html[i].crossorigin = undefined

\* a document is returned whose source has an image with a crossorigin
\* attribute and a stylesheet link whose fetch failed
C18_Witness ==
    /\ Answered200
    /\ \E i \in Seen :
          /\ tasks[i].outcome \in Failures
          /\ Returned(i).tag = "link"
    /\ \E i \in DOMAIN source :
          source[i].tag = "img" /\ source[i].crossorigin # undefined

\* C19: with a head in the source the returned document begins its head
\* with a base element for the request url, and without a head in the source
\* it has no base element
C19_BaseIffHead ==
    Answered200 =>
        /\ fetched.head =>
              /\ responses[1].html[1].tag = "base"
              /\ responses[1].html[1].parent = "head"
              /\ responses[1].html[1].href = urlOf(body)
        /\ ~fetched.head =>
              \A i \in DOMAIN responses[1].html :
                  responses[1].html[i].tag # "base"

\* C19 as amended: the returned document always begins its head with the
\* one base element for the request url, whether the source has a head or
\* not and whatever the stylesheet tasks did
C19_BaseAlwaysFirst ==
    Answered200 =>
        /\ responses[1].html # <<>>
        /\ responses[1].html[1].tag = "base"
        /\ responses[1].html[1].parent = "head"
        /\ responses[1].html[1].href = urlOf(body)
        /\ \A i \in DOMAIN responses[1].html :
              responses[1].html[i].tag = "base" => i = 1

\* a stylesheet link of the head is inlined and the base element is still
\* the first child of the head
C19_Witness ==
    /\ Answered200
    /\ fetched.head
    /\ \E i \in Seen :
          /\ tasks[i].outcome = "inlined"
          /\ Returned(i).parent = "head"
    /\ \E i \in Seen : tasks[i].outcome \in Failures
    /\ responses[1].html[1].tag = "base"

\* what Pass A makes of an attribute
passA(v, baseUrl) == IF truthy(v) THEN makeAbsolute(v, baseUrl) ELSE v

\* C20: Pass A replaces each non-empty src, href and poster attribute of an
\* element that is no stylesheet link by its absolute form, in the handlers
\* and in the in-browser adapter
C20_PassA ==
    (/\ call.fn \in {"rewriteResources", "assetNormalization"}
     /\ ~isStylesheetLink(call.el)) =>
        /\ call.outEl.src = passA(call.el.src, call.baseUrl)
        /\ call.outEl.href = passA(call.el.href, call.baseUrl)
        /\ call.outEl.poster = passA(call.el.poster, call.baseUrl)
(***************************************************************************)
(* The passes and the stylesheet tasks                                     *)
(***************************************************************************)
T_style == <<"b","a","c","k","g","r","o","u","n","d",":","u","r","l","(","'","h","t","t","p","s",":","/","/","e","x",".","c","o","m","/","d","/","b","g",".","p","n","g","'",")">>

\* the element of the returned document with the identity of element e
ReturnedAs(e) == responses[1].html[positionOf(responses[1].html, e.id)]

\* the style attribute that has the substring url(
hasUrl(v) == v # undefined /\ includes(v, S_url)

\* C21: in the returned document every style attribute of the source that
\* contains url( is rewriteCssUrls of its value against the URL of the page,
\* and every other style attribute, absent ones included, is as it was in
\* the source
C21_PassC ==
    Answered200 =>
        \A k \in DOMAIN source :
            /\ hasUrl(source[k].style) =>
                   ReturnedAs(source[k]).style =
                       rewriteCssUrls(source[k].style, urlOf(body))
            /\ ~hasUrl(source[k].style) =>
                   ReturnedAs(source[k]).style = source[k].style
            /\ source[k].style = V_style =>
                   ReturnedAs(source[k]).style = T_style
            /\ source[k].style = V_upper =>
                   ReturnedAs(source[k]).style = V_upper

\* a document is returned whose source has a style with url( and a style
\* without it
C21_Witness ==
    /\ Answered200
    /\ \E k \in DOMAIN source :
           source[k].style = V_style /\ ReturnedAs(source[k]).style = T_style
    /\ \E k \in DOMAIN source :
           source[k].style = V_upper /\ ReturnedAs(source[k]).style = V_upper

\* the three passes over the attributes
PassOps == {"rewriteResources", "processSrcset", "processInlineStyles"}

\* C22: every pass over the attributes is complete before a stylesheet task
\* starts: no GET of a stylesheet is issued, and no callback of a task
\* changes the tree, before the last of the three passes
C22_RewritesBeforeTasks ==
    \A i \in DOMAIN events, j \in DOMAIN events :
        (events[i].op \in PassOps
            /\ (events[j].op = "get" \/ events[j].by = "task")) => i < j

\* the part of C22 that the run-to-completion of the handler gives: the
\* callbacks of the tasks change the tree only after the three passes
C22_CallbacksAfterPasses ==
    \A i \in DOMAIN events, j \in DOMAIN events :
        (events[i].op \in PassOps /\ events[j].by = "task") => i < j

\* C23: only the handler changes the tree: no step of a task's callback
\* replaces a link element or sets an href
C23_OnlyHandlerMutates ==
    \A i \in DOMAIN events :
        events[i].op \in {"replaceWith", "attr"} => events[i].by = "handler"

\* the tasks created for the element e
TasksOf(e) == {i \in DOMAIN tasks : tasks[i].el = e.id}

\* the GETs issued for the element e
GetsOf(e) == {g \in DOMAIN gets : gets[g].el = e.id}

\* the element e after the cleanup of integrity and crossorigin
cleaned(e) == [e EXCEPT !.integrity = undefined, !.crossorigin = undefined]

\* C24: once the page is parsed there is exactly one task, with one GET, for
\* each stylesheet link whose href is not empty, and none for any other
\* element; a stylesheet link without href or with an empty href is returned
\* as it was in the source, integrity and crossorigin apart
C24_OneTaskPerLink ==
    main = "fulfilled" =>
        \A k \in DOMAIN source :
            IF isStylesheetLink(source[k]) /\ truthy(source[k].href)
            THEN /\ Cardinality(TasksOf(source[k])) = 1
                 /\ Cardinality(GetsOf(source[k])) = 1
            ELSE /\ TasksOf(source[k]) = {}
                 /\ GetsOf(source[k]) = {}
                 /\ (isStylesheetLink(source[k]) /\ Answered200) =>
                        ReturnedAs(source[k]) = cleaned(source[k])

\* a page with a stylesheet link without href, one with an empty href and one
\* with an href has been answered: one task, for the last of them
C24_Witness ==
    /\ Answered200
    /\ Len(tasks) = 1
    /\ \E k \in DOMAIN source :
           isStylesheetLink(source[k]) /\ source[k].href = undefined
    /\ \E k \in DOMAIN source :
           isStylesheetLink(source[k]) /\ source[k].href = <<>>
    /\ \E k \in DOMAIN source : TasksOf(source[k]) = {1}

\* the steps of the callbacks of tasks on the element with identity id
TaskStepsOn(id) ==
    {j \in DOMAIN events : events[j].by = "task" /\ events[j].el = id}

\* the element of the tree with the identity of task i
InTree(i) == tree[positionOf(tree, tasks[i].el)]

\* the element of the source with the identity of task i
InSource(i) == source[positionOf(source, tasks[i].el)]

\* C25: no stylesheet link is processed twice: while its task is pending the
\* link has the href of the source, so Pass A has not written it, and over
\* the invocation the task's callbacks act on it at most once, by a
\* replaceWith that leaves a style element or by an attr that leaves the link
C25_NoDoubleProcessing ==
    \A i \in DOMAIN tasks :
        /\ tasks[i].outcome = "pending" =>
               /\ TaskStepsOn(tasks[i].el) = {}
               /\ isStylesheetLink(InTree(i))
               /\ InTree(i).href = InSource(i).href
        /\ tasks[i].outcome # "pending" =>
               /\ Cardinality(TaskStepsOn(tasks[i].el)) = 1
               /\ \A j \in TaskStepsOn(tasks[i].el) :
                      IF tasks[i].outcome = "inlined"
                      THEN events[j].op = "replaceWith"
                           /\ InTree(i).tag = "style"
                      ELSE events[j].op = "attr"
                           /\ isStylesheetLink(InTree(i))

\* of three stylesheet links one is inlined, one has failed and the one with
\* a relative href is still pending
C25_Witness ==
    /\ Len(tasks) = 3
    /\ \E i \in DOMAIN tasks : tasks[i].outcome = "inlined"
    /\ \E i \in DOMAIN tasks : tasks[i].outcome \in Failures
    /\ \E i \in DOMAIN tasks :
           /\ tasks[i].outcome = "pending"
           /\ InSource(i).href = H_rel
           /\ InTree(i).href = H_rel

\* C26: a stylesheet GET that was outstanding when the timer won the race
\* does not stay pending for ever: its task settles, by an answer, a failure
\* or the timeout of the GET
C26_AbandonedFetchEnds ==
    \A i \in 1..MaxElems :
        (i \in abandoned) ~> (i \in DOMAIN tasks /\ tasks[i].outcome # "pending")

\* the response was sent at the deadline and an abandoned GET has timed out
\* since
C26_Witness ==
    /\ Answered200
    /\ timer = "fired"
    /\ \E i \in abandoned : tasks[i].outcome = "timeout"

\* the state of task i when the document was serialized
SucceededThen(i) == i \in Seen /\ tasks[i].outcome = "inlined"
FailedThen(i) == i \in Seen /\ tasks[i].outcome \in Failures
PendingThen(i) == i \in abandoned

\* the three forms of a returned stylesheet link
IsStyle(i) == Returned(i).tag = "style"
IsAbsoluteLink(i) ==
    isStylesheetLink(Returned(i)) /\ isAbsolute(Returned(i).href)
IsSourceLink(i) ==
    isStylesheetLink(Returned(i)) /\ Returned(i).href = InSource(i).href

\* C27: in the returned document the element of every task has the form
\* that the state of the task at serialization determines, and only that
\* form: a style element iff the task had succeeded, a link with an absolute
\* href iff it had failed or timed out, the link of the source iff it was
\* pending
C27_ThreeForms ==
    Answered200 =>
        \A i \in DOMAIN tasks :
            /\ IsStyle(i) <=> SucceededThen(i)
            /\ IsAbsoluteLink(i) <=> FailedThen(i)
            /\ IsSourceLink(i) <=> PendingThen(i)

\* what holds of the three forms: the style element tells success, a failed
\* task leaves the link with makeAbsolute's href and a pending one the link
\* with the href of the source, two forms that coincide when makeAbsolute
\* returns the href unchanged
C27_FormByTaskState ==
    Answered200 =>
        \A i \in DOMAIN tasks :
            /\ IsStyle(i) <=> SucceededThen(i)
            /\ FailedThen(i) =>
                   /\ isStylesheetLink(Returned(i))
                   /\ Returned(i).href = tasks[i].fullUrl
            /\ PendingThen(i) => IsSourceLink(i)
            /\ (SucceededThen(i) /\ ~FailedThen(i) /\ ~PendingThen(i))
                   \/ (~SucceededThen(i) /\ FailedThen(i) /\ ~PendingThen(i))
                   \/ (~SucceededThen(i) /\ ~FailedThen(i) /\ PendingThen(i))

\* the tree after the callback of one settled task
applied(t, task) ==
    IF task.outcome = "inlined" THEN thenCallback(t, task, task.css).tree
    ELSE catchCallback(t, task)

\* the tree after the callbacks of the tasks ts, run in document order
RECURSIVE inOrder(_, _)
inOrder(t, ts) ==
    IF ts = <<>> THEN t ELSE inOrder(applied(t, ts[1]), Tail(ts))

\* the positions of the steps of tasks' callbacks, in the order they ran
CallbackOrder == {j \in DOMAIN events : events[j].by = "task"}

\* C28: when every task has settled before the response, the returned
\* document is the one that the callbacks run in document order produce from
\* the transformed page: it depends on the outcomes of the fetches and not on
\* the order in which they arrive
C28_OrderIndependent ==
    (Answered200 /\ abandoned = {}) =>
        responses[1].html =
            inOrder(transform(source, fetched, urlOf(body)), tasks)

\* three tasks have settled before the response, the last link first, one of
\* them inlined and two failed
C28_Witness ==
    /\ Answered200
    /\ abandoned = {}
    /\ Len(tasks) = 3
    /\ \E i \in DOMAIN tasks : tasks[i].outcome = "inlined"
    /\ \E i, j \in DOMAIN tasks :
           i # j /\ tasks[i].outcome \in Failures /\ tasks[j].outcome \in Failures
    /\ \E j, k \in CallbackOrder : j < k /\ events[j].el > events[k].el

\* the handler is neither waiting to be called nor waiting for a fetch
Over == phase \notin {"Idle", "FetchingMain", "FetchingStylesheets"}

\* C29: every request is answered exactly once: when the handler is over
\* one response has been sent and no exception has left the handler, and no
\* later event adds a response or raises an exception
C29_ExactlyOneResponse ==
    /\ Len(responses) <= 1
    /\ responses # <<>> => ~unhandled
    /\ Over => (Len(responses) = 1 /\ ~unhandled)

\* the part of C29 about later events: never a second response, and no
\* exception once a response is sent
C29_AtMostOneResponse ==
    /\ Len(responses) <= 1
    /\ responses # <<>> => ~unhandled

\* the order of the statuses of a call that succeeds
StatusRank ==
    [s \in {"FETCHING", "PARSING", "INLINING_ASSETS", "SUCCESS"} |->
        IF s = "FETCHING" THEN 1
        ELSE IF s = "PARSING" THEN 2
        ELSE IF s = "INLINING_ASSETS" THEN 3
        ELSE 4]

\* C30: the statuses that bundleFramerSite passes to onProgress never go
\* backwards in the order FETCHING, PARSING, INLINING_ASSETS, SUCCESS, the
\* reports of warnings included
C30_StatusNeverGoesBack ==
    \A i \in DOMAIN bundle.reports, j \in DOMAIN bundle.reports :
        (i < j /\ bundle.reports[i].status \in DOMAIN StatusRank
               /\ bundle.reports[j].status \in DOMAIN StatusRank) =>
            StatusRank[bundle.reports[i].status]
                <= StatusRank[bundle.reports[j].status]

\* the part of C30 that holds: the reports that are no warnings are in order
C30_InfoReportsInOrder ==
    \A i \in DOMAIN bundle.reports, j \in DOMAIN bundle.reports :
        (i < j /\ bundle.reports[i].type # "warning"
               /\ bundle.reports[j].type # "warning"
               /\ bundle.reports[i].status \in DOMAIN StatusRank
               /\ bundle.reports[j].status \in DOMAIN StatusRank) =>
            StatusRank[bundle.reports[i].status]
                <= StatusRank[bundle.reports[j].status]
====
